---- MODULE Spec2Model ----
(***************************************************************************)
(* Model of the Smart Resume Analyzer: the extraction and matching logic   *)
(* of resume_logic.py and the three pages of App.py.                       *)
(*                                                                         *)
(* Texts are sequences of one-character strings, so that the regular       *)
(* expressions of resume_logic.py are modelled by what they match.         *)
(***************************************************************************)
EXTENDS Integers, Sequences, FiniteSets, TLC

VARIABLES
    db,             \* rows of the candidates table, in insertion order
    session_state,  \* st.session_state: a function on the keys that are set
    run,            \* what the last script run did and displayed
    text,           \* tokenization harness: the input text
    details,        \* tokenization harness: extract_candidate_details(text)
    jd_tokens,      \* tokenization harness: extract_skills_from_jd(text)
    tpc,            \* tokenization harness: the functions applied so far
    jd_skills,      \* gap harness: first argument of detect_skill_gaps
    resume_skills,  \* gap harness: second argument of detect_skill_gaps
    gap_result      \* gap harness: the pair returned, <<>> before the call

vars == <<db, session_state, run, text, details, jd_tokens, tpc,
          jd_skills, resume_skills, gap_result>>

appVars == <<db, session_state, run>>
tokVars == <<text, details, jd_tokens, tpc>>
gapVars == <<jd_skills, resume_skills, gap_result>>

-----------------------------------------------------------------------------
(* Bounds of the model *)

MaxPieces == 3      \* pieces concatenated into a harness text
MaxJdLen == 3       \* job tokens given to the gap harness
MaxSkills == 2      \* candidate skills given to the gap harness
MaxFiles == 1       \* documents uploaded in one analysis run
MaxRows == 1        \* rows the candidates table may hold

-----------------------------------------------------------------------------
(* Characters and character classes of Python's re module (ASCII part) *)

UpperCase ==
    <<"A", "B", "C", "D", "E", "F", "G", "H", "I", "J", "K", "L", "M",
      "N", "O", "P", "Q", "R", "S", "T", "U", "V", "W", "X", "Y", "Z">>

LowerCase ==
    <<"a", "b", "c", "d", "e", "f", "g", "h", "i", "j", "k", "l", "m",
      "n", "o", "p", "q", "r", "s", "t", "u", "v", "w", "x", "y", "z">>

Range(s) == {s[i] : i \in DOMAIN s}

IsUpper(c) == c \in Range(UpperCase)

IsLower(c) == c \in Range(LowerCase)

IsDigit(c) == c \in {"0", "1", "2", "3", "4", "5", "6", "7", "8", "9"}

\* \s
IsSpace(c) == c \in {" ", "\n", "\t", "\r"}

\* \w
IsWordChar(c) == IsUpper(c) \/ IsLower(c) \/ IsDigit(c) \/ c = "_"

\* str.lower()
LowerChar(c) ==
    IF IsUpper(c)
    THEN LowerCase[CHOOSE i \in DOMAIN UpperCase : UpperCase[i] = c]
    ELSE c

LowerText(t) == [i \in DOMAIN t |-> LowerChar(t[i])]

\* str.strip()
RECURSIVE Strip(_)
Strip(s) ==
    IF s = <<>> THEN s
    ELSE IF IsSpace(Head(s)) THEN Strip(Tail(s))
    ELSE IF IsSpace(s[Len(s)]) THEN Strip(SubSeq(s, 1, Len(s) - 1))
    ELSE s

\* The characters of a class, of those the model's texts are made of
Alphabet ==
    Range(UpperCase) \cup Range(LowerCase)
        \cup {"0", "1", "2", "3", "4", "5", "6", "7", "8", "9"}
        \cup {" ", "\n", "\t", "\r", "_", ".", "-", "@", "+", "(", ")", "#", "/", ",", ":"}

\* The first position q >= p at which the run from p of characters of the
\* class ends: what a greedy class+ or class* consumes from p.
RunEnd(t, p, class) ==
    LET RECURSIVE scan(_)
        scan(q) == IF q > Len(t) THEN q
                   ELSE IF t[q] \in class THEN scan(q + 1) ELSE q
    IN  scan(p)

\* \b before position p (p = Len(t) + 1 is the end of the text)
AtWordBoundary(t, p) ==
    LET left == p > 1 /\ IsWordChar(t[p - 1])
        right == p <= Len(t) /\ IsWordChar(t[p])
    IN  left # right

-----------------------------------------------------------------------------
(* resume_logic.py: the regular expressions of extract_candidate_details *)

\* [A-Z][a-z]+\s[A-Z][a-z]+
NameMatchEnd(t, p) ==
    IF ~IsUpper(t[p]) THEN 0
    ELSE LET a == RunEnd(t, p + 1, Range(LowerCase))
         IN  IF a = p + 1 \/ a + 1 > Len(t) THEN 0
             ELSE IF ~(IsSpace(t[a]) /\ IsUpper(t[a + 1])) THEN 0
             ELSE LET b == RunEnd(t, a + 2, Range(LowerCase))
                  IN  IF b = a + 2 THEN 0 ELSE b

\* [\w\.-]
EmailChars == {c \in Alphabet : IsWordChar(c) \/ c \in {".", "-"}}

\* \w
WordChars == {c \in Alphabet : IsWordChar(c)}

\* [\w\.-]+@[\w\.-]+\.\w+
EmailMatchEnd(t, p) ==
    LET a == RunEnd(t, p, EmailChars)
    IN  IF a = p \/ a > Len(t) THEN 0
        ELSE IF t[a] # "@" THEN 0
        ELSE LET b == RunEnd(t, a + 1, EmailChars)
                 dots == {m \in (a + 2)..(b - 2) :
                              t[m] = "." /\ IsWordChar(t[m + 1])}
             IN  IF dots = {} THEN 0
                 ELSE LET m == CHOOSE x \in dots : \A y \in dots : y <= x
                      IN  RunEnd(t, m + 1, WordChars)

\* [\d\s\-\(\)]
PhoneChars == {c \in Alphabet : IsDigit(c) \/ IsSpace(c) \/ c \in {"-", "(", ")"}}

\* \+?\d[\d\s\-\(\)]{8,}\d
PhoneMatchEnd(t, p) ==
    LET s == IF t[p] = "+" THEN p + 1 ELSE p
    IN  IF s > Len(t) THEN 0
        ELSE IF ~IsDigit(t[s]) THEN 0
        ELSE LET b == RunEnd(t, s + 1, PhoneChars)
                 ends == {e \in (s + 9)..(b - 1) : IsDigit(t[e])}
             IN  IF ends = {} THEN 0
                 ELSE (CHOOSE x \in ends : \A y \in ends : y <= x) + 1

MinTokenLen == 2

MaxTokenLen == 15

\* [A-Za-z\#\+]
SkillChar(c) == IsUpper(c) \/ IsLower(c) \/ c \in {"#", "+"}

SkillChars == {c \in Alphabet : SkillChar(c)}

\* \b[A-Za-z\#\+]{2,15}\b at p: the greedy quantifier takes the longest run of
\* at most 15 characters and backtracks to the longest length at which \b holds.
SkillMatchEnd(t, p) ==
    IF ~AtWordBoundary(t, p) THEN 0
    ELSE LET stop == RunEnd(t, p, SkillChars)
             lens == {n \in MinTokenLen..MaxTokenLen :
                          p + n <= stop /\ AtWordBoundary(t, p + n)}
         IN  IF lens = {} THEN 0
             ELSE p + (CHOOSE n \in lens : \A k \in lens : k <= n)

\* re.findall(r'\b[A-Za-z\#\+]{2,15}\b', t): the non-overlapping matches,
\* scanning from position p
RECURSIVE SkillFindAllFrom(_, _)
SkillFindAllFrom(t, p) ==
    IF p > Len(t) THEN <<>>
    ELSE LET e == SkillMatchEnd(t, p)
         IN  IF e > 0
             THEN <<SubSeq(t, p, e - 1)>> \o SkillFindAllFrom(t, e)
             ELSE SkillFindAllFrom(t, p + 1)

SkillFindAll(t) == SkillFindAllFrom(t, 1)

\* The end of the match of the named pattern at p, 0 if there is none
MatchEnd(pattern, t, p) ==
    CASE pattern = "name" -> NameMatchEnd(t, p)
      [] pattern = "email" -> EmailMatchEnd(t, p)
      [] pattern = "phone" -> PhoneMatchEnd(t, p)

\* re.findall(pattern, t)[0:1]: the leftmost match, as a list of at most one
\* element (the code reads element 0 only)
FindFirst(pattern, t) ==
    LET RECURSIVE scan(_)
        scan(p) == IF p > Len(t) THEN <<>>
                   ELSE LET e == MatchEnd(pattern, t, p)
                        IN  IF e > 0 THEN <<SubSeq(t, p, e - 1)>>
                            ELSE scan(p + 1)
    IN  scan(1)

\* "Unknown"
Unknown == <<"U", "n", "k", "n", "o", "w", "n">>

\* "Not Found"
NotFound == <<"N", "o", "t", " ", "F", "o", "u", "n", "d">>

\* The lists list(set(skills)) can be: every order of the distinct tokens.
SkillOrders(skills) ==
    LET S == Range(skills)
        n == Cardinality(S)
    IN  {o \in [1..n -> S] : \A i, j \in 1..n : i # j => o[i] # o[j]}

\* extract_candidate_details(text), with the order the set iteration gives
extract_candidate_details(t, order) ==
    LET name == FindFirst("name", t)
        email == FindFirst("email", t)
        phone == FindFirst("phone", t)
    IN  [Name |-> IF name # <<>> THEN name[1] ELSE Unknown,
         Email |-> IF email # <<>> THEN email[1] ELSE NotFound,
         Phone |-> IF phone # <<>> THEN phone[1] ELSE NotFound,
         Skills |-> order]

\* the local list skills of extract_candidate_details, before list(set(...))
resume_skill_matches(t) == SkillFindAll(LowerText(t))

\* The first occurrence of each element, in order
RECURSIVE Dedup(_)
Dedup(seq) ==
    IF seq = <<>> THEN <<>>
    ELSE LET front == Dedup(SubSeq(seq, 1, Len(seq) - 1))
             last == seq[Len(seq)]
         IN  IF \E i \in DOMAIN front : front[i] = last
             THEN front ELSE Append(front, last)

\* Faulty variant: the job tokens deduplicated like the candidate's skills
extract_skills_from_jd_dedup(jd_text) ==
    LET found == SkillFindAll(jd_text)
    IN  Dedup([i \in DOMAIN found |-> Strip(LowerText(found[i]))])

\* extract_skills_from_jd(jd_text)
extract_skills_from_jd(jd_text) ==
    LET found == SkillFindAll(jd_text)
    IN  [i \in DOMAIN found |-> Strip(LowerText(found[i]))]

\* s in resume_skills
In(s, skills) == \E i \in DOMAIN skills : skills[i] = s

\* [s for s in seq if Keep(s)]
RECURSIVE Filter(_, _, _)
Filter(seq, skills, keepPresent) ==
    IF seq = <<>> THEN <<>>
    ELSE LET rest == Filter(Tail(seq), skills, keepPresent)
         IN  IF In(Head(seq), skills) = keepPresent
             THEN <<Head(seq)>> \o rest
             ELSE rest

\* Faulty variant: gaps left unfiltered
detect_skill_gaps_unfiltered(jd, skills) ==
    [matched |-> Filter(jd, skills, TRUE),
     gaps |-> jd]

\* Faulty variant: matched taken in the order of the candidate's skills
detect_skill_gaps_by_resume(jd, skills) ==
    [matched |-> Filter(skills, jd, TRUE),
     gaps |-> Filter(jd, skills, FALSE)]

\* detect_skill_gaps(jd_skills, resume_skills)
detect_skill_gaps(jd, skills) ==
    [matched |-> Filter(jd, skills, TRUE),
     gaps |-> Filter(jd, skills, FALSE)]

-----------------------------------------------------------------------------
(* resume_logic.py: the static role data *)

JOB_CATEGORIES ==
    [c \in {"Software Development", "Data & Analytics", "Cloud & DevOps"} |->
        CASE c = "Software Development" ->
                 <<"Frontend Developer", "Backend Developer", "Full Stack Developer">>
          [] c = "Data & Analytics" -> <<"Data Scientist", "Data Analyst">>
          [] c = "Cloud & DevOps" -> <<"DevOps Engineer", "Cloud Engineer">>]

ROLE_SKILLS ==
    [r \in {"Frontend Developer", "Backend Developer", "Full Stack Developer",
            "Data Scientist", "DevOps Engineer", "Cloud Engineer"} |->
        CASE r = "Frontend Developer" ->
                 \* "HTML CSS JavaScript React UI UX"
                 <<"H", "T", "M", "L", " ", "C", "S", "S", " ", "J", "a", "v", "a",
                   "S", "c", "r", "i", "p", "t", " ", "R", "e", "a", "c", "t", " ",
                   "U", "I", " ", "U", "X">>
          [] r = "Backend Developer" ->
                 \* "Python Django Flask SQL APIs"
                 <<"P", "y", "t", "h", "o", "n", " ", "D", "j", "a", "n", "g", "o",
                   " ", "F", "l", "a", "s", "k", " ", "S", "Q", "L", " ", "A", "P",
                   "I", "s">>
          [] r = "Full Stack Developer" ->
                 \* "HTML CSS JS Node React Python SQL"
                 <<"H", "T", "M", "L", " ", "C", "S", "S", " ", "J", "S", " ", "N",
                   "o", "d", "e", " ", "R", "e", "a", "c", "t", " ", "P", "y", "t",
                   "h", "o", "n", " ", "S", "Q", "L">>
          [] r = "Data Scientist" ->
                 \* "Python SQL Machine Learning Statistics Pandas Numpy"
                 <<"P", "y", "t", "h", "o", "n", " ", "S", "Q", "L", " ", "M", "a",
                   "c", "h", "i", "n", "e", " ", "L", "e", "a", "r", "n", "i", "n",
                   "g", " ", "S", "t", "a", "t", "i", "s", "t", "i", "c", "s", " ",
                   "P", "a", "n", "d", "a", "s", " ", "N", "u", "m", "p", "y">>
          [] r = "DevOps Engineer" ->
                 \* "AWS Docker Kubernetes Linux CI/CD"
                 <<"A", "W", "S", " ", "D", "o", "c", "k", "e", "r", " ", "K", "u",
                   "b", "e", "r", "n", "e", "t", "e", "s", " ", "L", "i", "n", "u",
                   "x", " ", "C", "I", "/", "C", "D">>
          [] r = "Cloud Engineer" ->
                 \* "AWS Azure GCP Terraform DevOps"
                 <<"A", "W", "S", " ", "A", "z", "u", "r", "e", " ", "G", "C", "P",
                   " ", "T", "e", "r", "r", "a", "f", "o", "r", "m", " ", "D", "e",
                   "v", "O", "p", "s">>]

\* ROLE_SKILLS.get(role, "")
RoleSkillsGet(role) ==
    IF role \in DOMAIN ROLE_SKILLS THEN ROLE_SKILLS[role] ELSE <<>>

-----------------------------------------------------------------------------
(* resume_logic.py: reading documents and the candidates table *)

\* file.name.endswith(suffix)
EndsWith(name, suffix) ==
    /\ Len(name) >= Len(suffix)
    /\ SubSeq(name, Len(name) - Len(suffix) + 1, Len(name)) = suffix

\* extract_text(file): the PDF and DOCX readers raise on a document they cannot
\* parse (file.parses = FALSE); the plain-text branch decodes with
\* errors='ignore' and never raises.
extract_text(file) ==
    IF EndsWith(file.name, <<".", "p", "d", "f">>)
    THEN [raised |-> ~file.parses, text |-> IF file.parses THEN file.content ELSE <<>>]
    ELSE IF EndsWith(file.name, <<".", "d", "o", "c", "x">>)
    THEN [raised |-> ~file.parses, text |-> IF file.parses THEN file.content ELSE <<>>]
    ELSE [raised |-> FALSE, text |-> file.content]

\* Faulty variant: INSERT OR REPLACE on the last id
save_to_db_replace(table, data) ==
    LET row == [id |-> IF table = <<>> THEN 1 ELSE Len(table),
                name |-> data.name, email |-> data.email, phone |-> data.phone,
                filename |-> data.filename, job_category |-> data.job_category,
                role |-> data.role, similarity |-> data.similarity,
                matched_skills |-> data.matched_skills,
                skill_gaps |-> data.skill_gaps]
    IN  IF table = <<>> THEN <<row>> ELSE [table EXCEPT ![Len(table)] = row]

\* save_to_db(data): INSERT one row; the AUTOINCREMENT id is one more than the
\* largest id, which is the row count as no row is ever deleted.
save_to_db(table, data) ==
    Append(table,
           [id |-> Len(table) + 1,
            name |-> data.name, email |-> data.email, phone |-> data.phone,
            filename |-> data.filename, job_category |-> data.job_category,
            role |-> data.role, similarity |-> data.similarity,
            matched_skills |-> data.matched_skills,
            skill_gaps |-> data.skill_gaps])

\* load_all_data(): SELECT * FROM candidates
load_all_data(table) == table

-----------------------------------------------------------------------------
(* The inputs of the model *)

\* "Al Bo a@b.c 1234567890 sql aws SQL"
ResumeOne ==
    <<"A", "l", " ", "B", "o", " ", "a", "@", "b", ".", "c", " ",
      "1", "2", "3", "4", "5", "6", "7", "8", "9", "0", " ", "s", "q", "l",
      " ", "a", "w", "s", " ", "S", "Q", "L">>

\* The documents a user uploads: a PDF that parses, a text file of blanks, a
\* DOCX the reader cannot parse
UploadPool ==
    {[name |-> <<"a", ".", "p", "d", "f">>, parses |-> TRUE, content |-> ResumeOne],
     [name |-> <<"b", ".", "t", "x", "t">>, parses |-> TRUE, content |-> <<" ", "\n">>],
     [name |-> <<"c", ".", "d", "o", "c", "x">>, parses |-> FALSE, content |-> <<>>]}

SeqsUpTo(S, n) == UNION {[1..k -> S] : k \in 0..n}

Usernames == {"admin", "Admin", "12345"}

Passwords == {"12345", "admin"}

\* The pieces harness texts are concatenated from
Pieces ==
    {<<"p", "y">>, <<"P", "y">>, <<" ">>, <<"c", "#">>, <<"c", "+", "+">>,
     <<"x">>, <<"1">>,
     <<"a", "b", "c", "d", "e", "f", "g", "h", "i", "j", "k", "l", "m", "n">>}

RECURSIVE Concat(_)
Concat(parts) == IF parts = <<>> THEN <<>> ELSE Head(parts) \o Concat(Tail(parts))

HarnessTexts == {Concat(parts) : parts \in SeqsUpTo(Pieces, MaxPieces)}

\* The tokens of the gap harness: "python", "sql", "react", "java"
HarnessTokens ==
    {<<"p", "y", "t", "h", "o", "n">>, <<"s", "q", "l">>,
     <<"r", "e", "a", "c", "t">>, <<"j", "a", "v", "a">>}

\* extract_candidate_details(text): the values it can return, one for each
\* order of the skill list
CandidateDetails(doc) ==
    {extract_candidate_details(doc, order) :
        order \in SkillOrders(resume_skill_matches(doc))}

\* Every role of JOB_CATEGORIES
AllRoles == UNION {Range(JOB_CATEGORIES[c]) : c \in DOMAIN JOB_CATEGORIES}

\* extract_skills_from_jd(ROLE_SKILLS.get(role, "")) (lines 154-156), for each role
JdSkillsOf == [role \in AllRoles |-> extract_skills_from_jd(RoleSkillsGet(role))]

\* extract_text(file) (line 160), for each document of the pool
TextOf == [file \in UploadPool |-> extract_text(file)]

\* extract_candidate_details(text) (line 165), for each document of the pool
\* that is read
DetailsOf ==
    [file \in UploadPool |->
        IF TextOf[file].raised THEN {} ELSE CandidateDetails(TextOf[file].text)]

-----------------------------------------------------------------------------
(* App.py: the Upload & Analyze page *)

\* util.cos_sim(...).item(): the embedding collaborator's cosine similarity,
\* in units of 1/100000 (-100000 is -1.0, 100000 is 1.0)
CosValues == {-12344, 87656}

\* round(similarity * 100, 2), in hundredths (8766 is 87.66); a tie goes to
\* the even neighbour
RoundScore(cos) ==
    LET q == cos \div 10
        r == cos % 10
    IN  IF r > 5 \/ (r = 5 /\ q % 2 = 1) THEN q + 1 ELSE q

\* ", ".join(tokens)
RECURSIVE Join(_)
Join(tokens) ==
    IF tokens = <<>> THEN <<>>
    ELSE IF Len(tokens) = 1 THEN tokens[1]
    ELSE tokens[1] \o <<",", " ">> \o Join(Tail(tokens))

\* The entry appended to results for one document with non-empty text
\* (App.py lines 162-176)
ResultEntry(file, info, jd, cos) ==
    LET mg == detect_skill_gaps(jd, info.Skills)
    IN  [Name |-> info.Name,
         Email |-> info.Email,
         Phone |-> info.Phone,
         Resume |-> file.name,
         Similarity |-> RoundScore(cos),
         Matched_Skills |-> Join(mg.matched),
         Skill_Gaps |-> Join(mg.gaps)]

\* Faulty variant: the two skill columns exchanged in the stored row
RowData_swapped(file, info, jd, cos, job_category, role) ==
    LET mg == detect_skill_gaps(jd, info.Skills)
    IN  [name |-> info.Name,
         email |-> info.Email,
         phone |-> info.Phone,
         filename |-> file.name,
         job_category |-> job_category,
         role |-> role,
         similarity |-> RoundScore(cos),
         matched_skills |-> Join(mg.gaps),
         skill_gaps |-> Join(mg.matched)]

\* The argument of the save_to_db call for the same document (lines 178-188)
RowData(file, info, jd, cos, job_category, role) ==
    LET mg == detect_skill_gaps(jd, info.Skills)
    IN  [name |-> info.Name,
         email |-> info.Email,
         phone |-> info.Phone,
         filename |-> file.name,
         job_category |-> job_category,
         role |-> role,
         similarity |-> RoundScore(cos),
         matched_skills |-> Join(mg.matched),
         skill_gaps |-> Join(mg.gaps)]

\* if text.strip():
HasText(doc) == Strip(doc) # <<>>

\* Lines 162-188 for one document with non-empty text: the entry appended to
\* results and the argument of save_to_db, for each similarity the collaborator
\* can return and each order of the candidate's skill list
DocumentOutcomes(file, job_category, role) ==
    {[entry |-> ResultEntry(file, info, JdSkillsOf[role], cos),
      data |-> RowData(file, info, JdSkillsOf[role], cos, job_category, role)] :
        cos \in CosValues, info \in DetailsOf[file]}

\* DocumentOutcomes, for each document of the pool and each selectable role
OutcomesOf ==
    [file \in UploadPool, job_category \in DOMAIN JOB_CATEGORIES, role \in AllRoles |->
        IF TextOf[file].raised \/ role \notin Range(JOB_CATEGORIES[job_category])
        THEN {}
        ELSE DocumentOutcomes(file, job_category, role)]

\* The per-file loop (lines 158-188) from the table `table` on: the outcomes it
\* can have.  An exception raised by extract_text leaves the loop with what was
\* appended and stored before it.
RECURSIVE FileLoop(_, _, _, _)
FileLoop(files, job_category, role, table) ==
    IF files = <<>>
    THEN {[results |-> <<>>, table |-> table, raised |-> FALSE]}
    ELSE LET file == Head(files)
             read == TextOf[file]
         IN  IF read.raised
             THEN {[results |-> <<>>, table |-> table, raised |-> TRUE]}
             ELSE IF ~HasText(read.text)
             THEN FileLoop(Tail(files), job_category, role, table)
             ELSE UNION {
                    {[results |-> <<d.entry>> \o o.results,
                      table |-> o.table,
                      raised |-> o.raised] :
                        o \in FileLoop(Tail(files), job_category, role,
                                       save_to_db(table, d.data))} :
                    d \in OutcomesOf[file, job_category, role]}

\* pd.DataFrame(results).sort_values("Similarity", ascending=False): the
\* orders the sort can give (rows of equal similarity in any order)
SortedDescending(results) ==
    LET n == Len(results)
        perms == {q \in [1..n -> 1..n] : \A i, j \in 1..n : i # j => q[i] # q[j]}
    IN  {[i \in 1..n |-> results[q[i]]] : q \in
            {q \in perms : \A i \in 1..(n - 1) :
                 results[q[i]].Similarity >= results[q[i + 1]].Similarity}}

\* What a script run leaves on the page when it displays nothing
BlankRun(page) ==
    [page |-> page, job_category |-> "", role |-> "", uploaded_files |-> <<>>,
     username |-> "", password |-> "", raised |-> FALSE, messages |-> <<>>,
     results |-> <<>>, shown |-> <<>>, download |-> <<>>, loaded |-> FALSE]

\* st.session_state with no key set
EmptySession == [k \in {} |-> <<>>]

\* The "Start Analysis" button (lines 147-205)
StartAnalysis(job_category, role, uploaded_files) ==
    LET base == [BlankRun("Upload & Analyze") EXCEPT
                     !.job_category = job_category, !.role = role,
                     !.uploaded_files = uploaded_files]
    IN  IF uploaded_files = <<>>
        THEN /\ run' = [base EXCEPT
                            !.messages = <<"warning: Please upload at least one resume.">>]
             /\ UNCHANGED <<db, session_state>>
        ELSE \E o \in FileLoop(uploaded_files, job_category, role, db) :
                   /\ Len(o.table) <= MaxRows
                   /\ db' = o.table
                   /\ IF o.raised
                      THEN /\ run' = [base EXCEPT
                                          !.raised = TRUE,
                                          !.messages = <<"info: Analyzing">>,
                                          !.results = o.results]
                           /\ UNCHANGED session_state
                      ELSE IF o.results # <<>>
                      THEN \E df \in SortedDescending(o.results) :
                             /\ session_state' =
                                    [k \in DOMAIN session_state \cup
                                           {"analysis_results", "selected_role"} |->
                                        IF k = "analysis_results" THEN df
                                        ELSE IF k = "selected_role" THEN role
                                        ELSE session_state[k]]
                             /\ run' = [base EXCEPT
                                            !.messages = <<"info: Analyzing",
                                                           "success: Analysis Complete!">>,
                                            !.results = o.results,
                                            !.shown = df,
                                            !.download = df]
                      ELSE /\ run' = [base EXCEPT
                                          !.messages = <<"info: Analyzing",
                                                         "warning: No valid resumes processed.">>,
                                          !.results = o.results]
                           /\ UNCHANGED session_state

-----------------------------------------------------------------------------
(* App.py: the Dashboard and Admin Panel pages *)

\* all_gaps (line 238) is non-empty: some "Skill Gaps" cell has a part that is
\* not blank
HasGapData(df) ==
    \E i \in DOMAIN df :
        \E k \in DOMAIN df[i].Skill_Gaps :
            df[i].Skill_Gaps[k] # "," /\ ~IsSpace(df[i].Skill_Gaps[k])

\* Opening the Dashboard page (lines 208-261)
ViewDashboard ==
    /\ IF "analysis_results" \notin DOMAIN session_state
       THEN run' = [BlankRun("Dashboard") EXCEPT
                        !.messages = <<"info: Please upload and analyze resumes first.">>]
       ELSE LET df == session_state["analysis_results"]
                role == IF "selected_role" \in DOMAIN session_state
                        THEN session_state["selected_role"]
                        ELSE "Selected Role"
            IN  run' = [BlankRun("Dashboard") EXCEPT
                            !.role = role,
                            !.messages =
                                IF HasGapData(df)
                                THEN <<"subheader: Insights for">>
                                ELSE <<"subheader: Insights for",
                                       "info: No skill gap data available.">>,
                            !.shown = df]
    /\ UNCHANGED <<db, session_state>>

\* Faulty variant: the gate opens when either field is right
Login_either(username, password) ==
    LET base == [BlankRun("Admin Panel") EXCEPT
                     !.username = username, !.password = password]
    IN  /\ IF username = "admin" \/ password = "12345"
           THEN run' = [base EXCEPT
                            !.loaded = TRUE,
                            !.messages = <<"success: Logged in successfully!">>,
                            !.shown = load_all_data(db),
                            !.download = load_all_data(db)]
           ELSE run' = [base EXCEPT
                            !.messages = <<"error: Invalid credentials. Try again.">>]
        /\ UNCHANGED <<db, session_state>>

\* The "Login" button of the Admin Panel (lines 270-316)
Login(username, password) ==
    LET base == [BlankRun("Admin Panel") EXCEPT
                     !.username = username, !.password = password]
    IN  /\ IF username = "admin" /\ password = "12345"
           THEN LET data == load_all_data(db)
                IN  IF data = <<>>
                    THEN run' = [base EXCEPT
                                     !.loaded = TRUE,
                                     !.messages = <<"success: Logged in successfully!",
                                                    "info: No candidate data available yet.">>]
                    ELSE run' = [base EXCEPT
                                     !.loaded = TRUE,
                                     !.messages = <<"success: Logged in successfully!">>,
                                     !.shown = data,
                                     !.download = data]
           ELSE run' = [base EXCEPT
                            !.messages = <<"error: Invalid credentials. Try again.">>]
        /\ UNCHANGED <<db, session_state>>

\* A new process and browser session: the table is kept by
\* CREATE TABLE IF NOT EXISTS (resume_logic.py lines 8-22), the session state
\* starts empty
Restart ==
    /\ run' = BlankRun("Upload & Analyze")
    /\ session_state' = EmptySession
    /\ UNCHANGED db

-----------------------------------------------------------------------------
(* Specifications *)

NoDetails == [Name |-> <<>>, Email |-> <<>>, Phone |-> <<>>, Skills |-> <<>>]

AppInit ==
    /\ db = <<>>
    /\ session_state = EmptySession
    /\ run = BlankRun("Upload & Analyze")

TokIdle ==
    /\ text = <<>>
    /\ details = NoDetails
    /\ jd_tokens = <<>>
    /\ tpc = {}

GapIdle ==
    /\ jd_skills = <<>>
    /\ resume_skills = <<>>
    /\ gap_result = <<>>

Init == AppInit /\ TokIdle /\ GapIdle

Next ==
    \/ /\ \E job_category \in DOMAIN JOB_CATEGORIES :
            \E r \in DOMAIN JOB_CATEGORIES[job_category] :
                \E uploaded_files \in SeqsUpTo(UploadPool, MaxFiles) :
                    StartAnalysis(job_category, JOB_CATEGORIES[job_category][r],
                                  uploaded_files)
       /\ UNCHANGED <<tokVars, gapVars>>
    \/ /\ ViewDashboard
       /\ UNCHANGED <<tokVars, gapVars>>
    \/ /\ \E username \in Usernames, password \in Passwords :
            Login(username, password)
       /\ UNCHANGED <<tokVars, gapVars>>
    \/ /\ Restart
       /\ UNCHANGED <<tokVars, gapVars>>

Spec == Init /\ [][Next]_vars

\* Tokenization harness: both tokenizers applied to one text
TokInit ==
    /\ text \in HarnessTexts
    /\ details = NoDetails
    /\ jd_tokens = <<>>
    /\ tpc = {}
    /\ AppInit /\ GapIdle

TokDetails ==
    /\ "details" \notin tpc
    /\ \E order \in SkillOrders(resume_skill_matches(text)) :
           details' = extract_candidate_details(text, order)
    /\ tpc' = tpc \cup {"details"}
    /\ UNCHANGED <<text, jd_tokens, appVars, gapVars>>

TokJd ==
    /\ "jd" \notin tpc
    /\ jd_tokens' = extract_skills_from_jd(text)
    /\ tpc' = tpc \cup {"jd"}
    /\ UNCHANGED <<text, details, appVars, gapVars>>

TokNext == TokDetails \/ TokJd

SpecTok == TokInit /\ [][TokNext]_vars

\* Gap harness: detect_skill_gaps applied to a token sequence and a skill list
GapInit ==
    /\ jd_skills \in SeqsUpTo(HarnessTokens, MaxJdLen)
    /\ resume_skills \in SeqsUpTo(HarnessTokens, MaxSkills)
    /\ gap_result = <<>>
    /\ AppInit /\ TokIdle

GapDetect ==
    /\ gap_result = <<>>
    /\ gap_result' = <<detect_skill_gaps(jd_skills, resume_skills)>>
    /\ UNCHANGED <<jd_skills, resume_skills, appVars, tokVars>>

GapNext == GapDetect

SpecGap == GapInit /\ [][GapNext]_vars

-----------------------------------------------------------------------------
(* Properties of detect_skill_gaps, checked under SpecGap *)

GapMatched == gap_result[1].matched

GapGaps == gap_result[1].gaps

\* C1: for every job-token sequence and candidate skill list, the matched and
\* gap tokens returned by detect_skill_gaps together are exactly the job
\* tokens, and no token is in both.
C1_Partition ==
    gap_result # <<>> =>
        /\ Range(GapMatched) \cup Range(GapGaps) = Range(jd_skills)
        /\ Range(GapMatched) \cap Range(GapGaps) = {}

C1_Witness ==
    /\ gap_result # <<>>
    /\ Len(jd_skills) >= 3
    /\ GapMatched # <<>>
    /\ GapGaps # <<>>

\* The positions of the job tokens equal to some candidate skill
MatchedPositions ==
    {i \in DOMAIN jd_skills :
        \E k \in DOMAIN resume_skills : resume_skills[k] = jd_skills[i]}

\* sub is the subsequence of seq at the positions I, in the order of seq
IsSubsequenceAt(sub, seq, I) ==
    /\ Len(sub) = Cardinality(I)
    /\ \A i \in I : sub[Cardinality({j \in I : j <= i})] = seq[i]

\* C2: matched is the subsequence of the job tokens equal to some candidate
\* skill and gaps the subsequence of the others, each in job-token order.
C2_OrderedPartition ==
    gap_result # <<>> =>
        /\ IsSubsequenceAt(GapMatched, jd_skills, MatchedPositions)
        /\ IsSubsequenceAt(GapGaps, jd_skills, DOMAIN jd_skills \ MatchedPositions)

\* [python, sql, react] against [python, java]
C2_Witness ==
    /\ jd_skills = <<(<<"p", "y", "t", "h", "o", "n">>), (<<"s", "q", "l">>),
                     (<<"r", "e", "a", "c", "t">>)>>
    /\ resume_skills = <<(<<"p", "y", "t", "h", "o", "n">>), (<<"j", "a", "v", "a">>)>>
    /\ gap_result = <<[matched |-> <<(<<"p", "y", "t", "h", "o", "n">>)>>,
                       gaps |-> <<(<<"s", "q", "l">>), (<<"r", "e", "a", "c", "t">>)>>]>>

-----------------------------------------------------------------------------
(* Properties of the tokenizers, checked under SpecTok *)

\* str.split(): the whitespace-delimited words of t
SplitWords(t) ==
    LET RECURSIVE go(_, _)
        go(p, cur) ==
            IF p > Len(t) THEN (IF cur = <<>> THEN <<>> ELSE <<cur>>)
            ELSE IF IsSpace(t[p])
            THEN (IF cur = <<>> THEN <<>> ELSE <<cur>>) \o go(p + 1, <<>>)
            ELSE go(p + 1, Append(cur, t[p]))
    IN  go(1, <<>>)

IsSkillShaped(w) ==
    /\ Len(w) >= MinTokenLen
    /\ Len(w) <= MaxTokenLen
    /\ \A i \in DOMAIN w : SkillChar(w[i])

\* C7: the Skills of a text are lowercase tokens of 2 to 15 letters, '#' and
\* '+', and every whitespace-delimited word of the text of that shape (such as
\* "c#" and "c++") is among them.
C7_Claim ==
    "details" \in tpc =>
        /\ \A i \in DOMAIN details.Skills :
               /\ IsSkillShaped(details.Skills[i])
               /\ details.Skills[i] = LowerText(details.Skills[i])
        /\ \A w \in Range(SplitWords(text)) :
               IsSkillShaped(w) => LowerText(w) \in Range(details.Skills)

\* The tokens occur in t one after the other, without overlap
OccurInOrder(tokens, t) ==
    LET RECURSIVE go(_, _)
        go(i, from) ==
            IF i > Len(tokens) THEN TRUE
            ELSE \E p \in from..(Len(t) - Len(tokens[i]) + 1) :
                     /\ SubSeq(t, p, p + Len(tokens[i]) - 1) = tokens[i]
                     /\ go(i + 1, p + Len(tokens[i]))
    IN  go(1, 1)

\* C9: the candidate's Skills hold each token of the text once, whatever the
\* number of its occurrences, while extract_skills_from_jd returns one token per
\* occurrence, in the order of appearance in the text.
C9_Asymmetry ==
    tpc = {"details", "jd"} =>
        /\ \A i, j \in DOMAIN details.Skills :
               i # j => details.Skills[i] # details.Skills[j]
        /\ Range(details.Skills) = Range(jd_tokens)
        /\ jd_tokens = resume_skill_matches(text)
        /\ OccurInOrder(jd_tokens, LowerText(text))

\* "Py py": one skill, two job tokens
C9_Witness ==
    /\ tpc = {"details", "jd"}
    /\ text = <<"P", "y", " ", "p", "y">>
    /\ jd_tokens = <<(<<"p", "y">>), (<<"p", "y">>)>>
    /\ details.Skills = <<(<<"p", "y">>)>>

-----------------------------------------------------------------------------
(* Properties of the pages, checked under Spec *)

IsPrefix(s, t) == Len(s) <= Len(t) /\ SubSeq(t, 1, Len(s)) = s

\* The documents of a batch the loop reads: all of them, or those before the
\* first one extract_text raises on
ReadDocs(files) ==
    LET bad == {i \in DOMAIN files : TextOf[files[i]].raised}
    IN  IF bad = {} THEN files
        ELSE SubSeq(files, 1, (CHOOSE i \in bad : \A j \in bad : i <= j) - 1)

DocHasText(file) == ~TextOf[file].raised /\ HasText(TextOf[file].text)

SameValues(entry, row) ==
    /\ row.name = entry.Name
    /\ row.email = entry.Email
    /\ row.phone = entry.Phone
    /\ row.filename = entry.Resume
    /\ row.similarity = entry.Similarity
    /\ row.matched_skills = entry.Matched_Skills
    /\ row.skill_gaps = entry.Skill_Gaps

\* C3: a batch with a document whose read fails is not aborted: every other
\* document with non-empty text is analysed, stored and listed.
C3_Claim ==
    (/\ run.page = "Upload & Analyze"
     /\ \E i \in DOMAIN run.uploaded_files : TextOf[run.uploaded_files[i]].raised)
    => /\ ~run.raised
       /\ Len(run.shown) = Len(SelectSeq(run.uploaded_files, DocHasText))
       /\ \A i \in DOMAIN run.uploaded_files :
              DocHasText(run.uploaded_files[i]) =>
                  /\ \E k \in DOMAIN run.shown :
                         run.shown[k].Resume = run.uploaded_files[i].name
                  /\ \E k \in DOMAIN db :
                         db[k].filename = run.uploaded_files[i].name

LoginSucceeded(r) ==
    \E i \in DOMAIN r.messages : r.messages[i] = "success: Logged in successfully!"

\* C6: a login attempt succeeds exactly when the username is "admin" and the
\* password is "12345"; any other attempt shows an error, does not call
\* load_all_data, shows and offers no stored data, and changes neither the
\* table nor the session state.
C6_LoginGate ==
    [][run'.page = "Admin Panel" =>
          /\ LoginSucceeded(run') <=>
                 (run'.username = "admin" /\ run'.password = "12345")
          /\ ~(run'.username = "admin" /\ run'.password = "12345") =>
                 /\ run'.messages = <<"error: Invalid credentials. Try again.">>
                 /\ ~run'.loaded
                 /\ run'.shown = <<>>
                 /\ run'.download = <<>>
                 /\ db' = db
                 /\ session_state' = session_state]_vars

\* A refused attempt with the right username while rows are stored
C6_Witness ==
    /\ run.page = "Admin Panel"
    /\ run.username = "admin"
    /\ run.password # "12345"
    /\ db # <<>>
    /\ "analysis_results" \in DOMAIN session_state
    /\ ~run.loaded
    /\ run.shown = <<>>

\* C8: every similarity score shown or stored lies between 0 and 100 (0 and
\* 10000 hundredths).
C8_Claim ==
    /\ \A i \in DOMAIN db : db[i].similarity >= 0 /\ db[i].similarity <= 10000
    /\ \A i \in DOMAIN run.results :
           run.results[i].Similarity >= 0 /\ run.results[i].Similarity <= 10000

\* C10: the role of every analysis run has a skill description, its job-token
\* sequence is not empty, and no analysed document has both matched skills and
\* skill gaps empty.
C10_Claim ==
    (run.page = "Upload & Analyze" /\ run.uploaded_files # <<>>) =>
        /\ run.role \in DOMAIN ROLE_SKILLS
        /\ JdSkillsOf[run.role] # <<>>
        /\ \A i \in DOMAIN run.results :
               run.results[i].Matched_Skills # <<>> \/ run.results[i].Skill_Gaps # <<>>

====
